---- MODULE Spec2Model ----
(***************************************************************************)
(* QuickReply: the App component (src/unnamed/part_000) as a state machine. *)
(* A JavaScript string is a sequence of one-character strings; a snippet is *)
(* a record [id, category, title, content] of such sequences.               *)
(***************************************************************************)
EXTENDS Integers, Sequences, FiniteSets, TLC

\* ------------------------------------------------------------------------
\* Bounds of the model
\* ------------------------------------------------------------------------
MaxMessages == 2
MaxIds == 2
MaxReads == 1
MaxWrites == 1
MaxTimers == 2

\* ------------------------------------------------------------------------
\* Strings: UTF-16 code units, toLowerCase, trim, includes, comparison
\* ------------------------------------------------------------------------
\* U+0020..U+007E in order; "grave" stands for U+0060
Ascii ==
  << " ", "!", "\"", "#", "$", "%", "&", "'", "(", ")", "*", "+", ",", "-", ".", "/",
     "0", "1", "2", "3", "4", "5", "6", "7", "8", "9", ":", ";", "<", "=", ">", "?",
     "@", "A", "B", "C", "D", "E", "F", "G", "H", "I", "J", "K", "L", "M", "N", "O",
     "P", "Q", "R", "S", "T", "U", "V", "W", "X", "Y", "Z", "[", "\\", "]", "^", "_",
     "grave", "a", "b", "c", "d", "e", "f", "g", "h", "i", "j", "k", "l", "m", "n", "o",
     "p", "q", "r", "s", "t", "u", "v", "w", "x", "y", "z", "{", "|", "}", "~" >>

IAcute == "i-acute"

Chars == {Ascii[i] : i \in 1..Len(Ascii)} \cup {IAcute}

\* the code unit of a character (U+0020..U+007E, and U+00ED for i-acute)
CodeUnit ==
  [c \in Chars |-> IF c = IAcute THEN 237
                   ELSE 31 + (CHOOSE i \in 1..Len(Ascii) : Ascii[i] = c)]

\* String.prototype.toLowerCase, one character
LowerChar ==
  [c \in Chars |-> IF CodeUnit[c] \in 65..90 THEN Ascii[CodeUnit[c] + 32 - 31] ELSE c]

toLowerCase(s) == [i \in 1..Len(s) |-> LowerChar[s[i]]]

IsSpace(c) == c = " "

RECURSIVE trimStart(_)
trimStart(s) ==
  IF s # <<>> /\ IsSpace(Head(s)) THEN trimStart(Tail(s)) ELSE s

RECURSIVE trimEnd(_)
trimEnd(s) ==
  IF s # <<>> /\ IsSpace(s[Len(s)]) THEN trimEnd(SubSeq(s, 1, Len(s) - 1)) ELSE s

\* String.prototype.trim
trim(s) == trimEnd(trimStart(s))

\* String.prototype.includes: some offset at which every character of t matches
includes(s, t) ==
  \E k \in 0..(Len(s) - Len(t)) : \A i \in 1..Len(t) : s[k + i] = t[i]

\* comparison of two strings by code units, as the default sort compares
RECURSIVE StrLess(_, _)
StrLess(a, b) ==
  IF b = <<>> THEN FALSE
  ELSE IF a = <<>> THEN TRUE
  ELSE IF CodeUnit[Head(a)] < CodeUnit[Head(b)] THEN TRUE
  ELSE IF CodeUnit[Head(a)] > CodeUnit[Head(b)] THEN FALSE
  ELSE StrLess(Tail(a), Tail(b))

RECURSIVE join(_, _)
join(ss, sep) ==
  IF ss = <<>> THEN <<>>
  ELSE IF Len(ss) = 1 THEN ss[1]
  ELSE ss[1] \o sep \o join(Tail(ss), sep)

\* ------------------------------------------------------------------------
\* String literals of the program
\* ------------------------------------------------------------------------
StrId == <<"i", "d">>
StrCategory == <<"c", "a", "t", "e", "g", "o", "r", "y">>
StrTitle == <<"t", "i", "t", "l", "e">>
StrContent == <<"c", "o", "n", "t", "e", "n", "t">>
Geral == <<"G", "e", "r", "a", "l">>
SemTitulo == <<"S", "e", "m", " ", "T", IAcute, "t", "u", "l", "o">>
SemCategoria == <<"S", "e", "m", " ", "C", "a", "t", "e", "g", "o", "r", "i", "a">>
StorageKey == "quickreply_messages"

\* crypto.randomUUID(): the n-th identifier drawn; distinct draws are distinct
Digits == <<"1", "2", "3", "4", "5", "6", "7", "8", "9">>
randomUUID(n) == <<"u", Digits[n]>>

Null == <<>>
Some(x) == <<x>>

\* ------------------------------------------------------------------------
\* JSON.stringify and JSON.parse of the collection
\* ------------------------------------------------------------------------
RECURSIVE Escape(_)
Escape(s) ==
  IF s = <<>> THEN <<>>
  ELSE (IF Head(s) \in {"\"", "\\"} THEN <<"\\", Head(s)>> ELSE <<Head(s)>>)
       \o Escape(Tail(s))

Quote(s) == <<"\"">> \o Escape(s) \o <<"\"">>

Member(k, v) == Quote(k) \o <<":">> \o Quote(v)

StringifySnippet(m) ==
  <<"{">> \o join(<< Member(StrId, m.id), Member(StrCategory, m.category),
                     Member(StrTitle, m.title), Member(StrContent, m.content) >>, <<",">>)
          \o <<"}">>

\* JSON.stringify(messages)
Stringify(ms) ==
  <<"[">> \o join([i \in 1..Len(ms) |-> StringifySnippet(ms[i])], <<",">>) \o <<"]">>

Fail == [ok |-> FALSE, val |-> <<>>, next |-> 0]
At(t, i) == IF i \in 1..Len(t) THEN t[i] ELSE "EOF"

\* the characters of a string literal, from position i (after the opening quote)
RECURSIVE ParseChars(_, _, _)
ParseChars(t, i, acc) ==
  IF At(t, i) = "EOF" THEN Fail
  ELSE IF t[i] = "\"" THEN [ok |-> TRUE, val |-> acc, next |-> i + 1]
  ELSE IF t[i] = "\\"
       THEN IF At(t, i + 1) \in {"\"", "\\"}
            THEN ParseChars(t, i + 2, Append(acc, t[i + 1]))
            ELSE Fail
  ELSE ParseChars(t, i + 1, Append(acc, t[i]))

ParseString(t, i) == IF At(t, i) = "\"" THEN ParseChars(t, i + 1, <<>>) ELSE Fail

\* the members of an object, from position i (after "{" or ","); acc is the object so far
RECURSIVE ParseMembers(_, _, _)
ParseMembers(t, i, acc) ==
  LET k == ParseString(t, i) IN
  IF ~k.ok \/ At(t, k.next) # ":" THEN Fail
  ELSE LET v == ParseString(t, k.next + 1) IN
       IF ~v.ok THEN Fail
       ELSE LET obj == [f \in DOMAIN acc \cup {k.val} |-> IF f = k.val THEN v.val ELSE acc[f]] IN
            IF At(t, v.next) = "," THEN ParseMembers(t, v.next + 1, obj)
            ELSE IF At(t, v.next) = "}" THEN [ok |-> TRUE, val |-> obj, next |-> v.next + 1]
            ELSE Fail

EmptyObject == [f \in {} |-> <<>>]

ParseObject(t, i) ==
  IF At(t, i) # "{" THEN Fail
  ELSE IF At(t, i + 1) = "}" THEN [ok |-> TRUE, val |-> EmptyObject, next |-> i + 2]
  ELSE ParseMembers(t, i + 1, EmptyObject)

\* the object as the component reads it: the four fields of a MessageSnippet
AsSnippet(obj) ==
  LET get(k) == IF k \in DOMAIN obj THEN obj[k] ELSE <<>> IN
  [id |-> get(StrId), category |-> get(StrCategory),
   title |-> get(StrTitle), content |-> get(StrContent)]

RECURSIVE ParseElements(_, _, _)
ParseElements(t, i, acc) ==
  LET o == ParseObject(t, i) IN
  IF ~o.ok THEN Fail
  ELSE IF At(t, o.next) = "," THEN ParseElements(t, o.next + 1, Append(acc, AsSnippet(o.val)))
  ELSE IF At(t, o.next) = "]"
       THEN [ok |-> TRUE, val |-> Append(acc, AsSnippet(o.val)), next |-> o.next + 1]
  ELSE Fail

\* JSON.parse(saved), for a text that is an array of objects with string members;
\* ok = FALSE is the SyntaxError
JSONParse(t) ==
  LET r == IF At(t, 1) # "[" THEN Fail
           ELSE IF At(t, 2) = "]" THEN [ok |-> TRUE, val |-> <<>>, next |-> 3]
           ELSE ParseElements(t, 2, <<>>) IN
  IF r.ok /\ r.next = Len(t) + 1 THEN r ELSE Fail

\* ------------------------------------------------------------------------
\* Query layer: filteredMessages, groupedMessages, the order of display
\* ------------------------------------------------------------------------
\* the filter with the content left out of the search
MatchesTitleAndCategory(m, searchTerm) ==
  LET term == toLowerCase(searchTerm) IN
  \/ includes(toLowerCase(m.title), term)
  \/ includes(toLowerCase(m.category), term)

Matches(m, searchTerm) ==
  LET term == toLowerCase(searchTerm) IN
  \/ includes(toLowerCase(m.title), term)
  \/ includes(toLowerCase(m.category), term)
  \/ includes(toLowerCase(m.content), term)

filteredMessages(ms, searchTerm) == SelectSeq(ms, LAMBDA m : Matches(m, searchTerm))

\* names every object inherits from Object.prototype: groups[name] is truthy
\* on an empty object literal, and has no push
ObjectPrototypeKeys ==
  { <<"c","o","n","s","t","r","u","c","t","o","r">>,
    <<"t","o","S","t","r","i","n","g">>,
    <<"v","a","l","u","e","O","f">>,
    <<"t","o","L","o","c","a","l","e","S","t","r","i","n","g">>,
    <<"h","a","s","O","w","n","P","r","o","p","e","r","t","y">>,
    <<"i","s","P","r","o","t","o","t","y","p","e","O","f">>,
    <<"p","r","o","p","e","r","t","y","I","s","E","n","u","m","e","r","a","b","l","e">>,
    <<"_","_","p","r","o","t","o","_","_">> }

HasOwn(groups, cat) == \E i \in 1..Len(groups) : groups[i].category = cat

\* groups[m.category].push(m) on an own property
Push(groups, m) ==
  [i \in 1..Len(groups) |->
     IF groups[i].category = m.category
     THEN [groups[i] EXCEPT !.items = Append(@, m)] ELSE groups[i]]

\* the forEach of groupedMessages over fm[i..]; groups lists the own properties
\* in the order they were created; threw = TRUE is the TypeError of push
RECURSIVE GroupFrom(_, _, _)
GroupFrom(fm, i, groups) ==
  IF i > Len(fm) THEN [threw |-> FALSE, groups |-> groups]
  ELSE LET m == fm[i] IN
       IF HasOwn(groups, m.category) THEN GroupFrom(fm, i + 1, Push(groups, m))
       ELSE IF m.category \in ObjectPrototypeKeys THEN [threw |-> TRUE, groups |-> groups]
       ELSE GroupFrom(fm, i + 1, Append(groups, [category |-> m.category, items |-> <<m>>]))

groupedMessages(fm) == GroupFrom(fm, 1, <<>>)

ObjectObject == <<"[","o","b","j","e","c","t"," ","O","b","j","e","c","t","]">>

\* String([category, items]): what the default sort compares
EntryToString(e) ==
  e.category \o <<",">> \o join([i \in 1..Len(e.items) |-> ObjectObject], <<",">>)

SortLess(x, y) == StrLess(EntryToString(x), EntryToString(y))

\* insertion of e behind every entry that is not greater than it (stable)
RECURSIVE InsertSorted(_, _)
InsertSorted(sorted, e) ==
  IF sorted = <<>> THEN <<e>>
  ELSE IF SortLess(e, Head(sorted)) THEN <<e>> \o sorted
  ELSE <<Head(sorted)>> \o InsertSorted(Tail(sorted), e)

RECURSIVE SortEntries(_)
SortEntries(es) ==
  IF es = <<>> THEN <<>>
  ELSE InsertSorted(SortEntries(SubSeq(es, 1, Len(es) - 1)), es[Len(es)])

\* Object.entries(groupedMessages).sort(): the groups in the order they are shown
DisplayedGroups(ms, searchTerm) ==
  SortEntries(groupedMessages(filteredMessages(ms, searchTerm)).groups)

\* the render of the component throws when groupedMessages throws
RenderThrows(ms, searchTerm) == groupedMessages(filteredMessages(ms, searchTerm)).threw

\* ------------------------------------------------------------------------
\* Tabular importer: the rows of the first sheet to snippets
\* ------------------------------------------------------------------------
\* a cell is a string; the empty string also stands for a missing cell (both falsy)
OrElse(v, fallback) == IF v = <<>> THEN fallback ELSE v

RetainedRows(data) == SelectSeq(SubSeq(data, 2, Len(data)), LAMBDA row : Len(row) >= 3)

\* newSnippets, the first of them receiving the UUID number first
newSnippets(data, first) ==
  LET rows == RetainedRows(data) IN
  [i \in 1..Len(rows) |->
     [id |-> randomUUID(first + i - 1),
      category |-> trim(OrElse(rows[i][1], SemCategoria)),
      title |-> trim(OrElse(rows[i][2], SemTitulo)),
      content |-> trim(OrElse(rows[i][3], <<>>))]]

\* ------------------------------------------------------------------------
\* Inputs of the handlers
\* ------------------------------------------------------------------------
\* what the form submits: category, title, content
FormInputs ==
  { [category |-> <<>>, title |-> <<>>, content |-> <<"a", "B", "\\", "\"">>],
    [category |-> <<"v","a","l","u","e","O","f">>, title |-> <<"T">>, content |-> <<"x">>] }

Header == << <<"c">>, <<"t">>, <<"x">> >>

\* what sheet_to_json(worksheet, {header: 1}) returns for the picked file
Sheets ==
  { << Header, << <<"x">>, <<"y">> >> >>,
    << Header, << <<"C">>, <<" ", "a", "B", " ">>, <<"x">>, <<"y">> >> >>,
    << Header, << <<"A", "B", "+">>, <<" ">>, <<"x">> >>,
               << <<"x">>, <<"y">> >>,
               << <<"A", "B">>, <<>>, <<>> >> >> }

SearchTerms == { <<>>, <<"a", "B">> }

\* what the storage area holds before the page is first opened: nothing, or a
\* text that is not JSON
InitialStorage == { [k \in {} |-> <<>>], [k \in {StorageKey} |-> <<"[", "{">>] }

\* a collection that an earlier visit saved
EarlierVisit ==
  << [id |-> <<"u", "8">>, category |-> <<"A", "B">>, title |-> <<"T">>,
      content |-> <<"x", "a", "b">>],
     [id |-> <<"u", "9">>, category |-> <<"G", "e", "r", "a", "l">>, title |-> <<"t">>,
      content |-> <<"B">>] >>

\* ------------------------------------------------------------------------
\* State
\* ------------------------------------------------------------------------
\* expandedCategories, expandedMessages and showConfig (lines 24-25, 30) only
\* decide which parts of the page are drawn; no handler reads them to change
\* the collection, the storage or the acknowledgment, so they are left out.
VARIABLES
  messages,        \* useState<MessageSnippet[]>
  searchTerm,      \* useState('')
  viewMode,        \* 'list' | 'add' | 'edit'
  editingSnippet,  \* Null or Some(snippet)
  copyFeedback,    \* Null or Some(id)
  localStorage,    \* the storage area: key -> text, for the keys present
  mounted,         \* the component is on the page (FALSE once a render threw)
  uuids,           \* how many UUIDs crypto.randomUUID() has handed out
  reads,           \* FileReader loads in flight: the set of the rows they will deliver
  writes,          \* clipboard writes in flight: the id of the snippet copied
  timers,          \* pending setTimeout callbacks, each with the id of its copy
  lastOp           \* the handler that ran last

vars == << messages, searchTerm, viewMode, editingSnippet, copyFeedback,
           localStorage, mounted, uuids, reads, writes, timers, lastOp >>

getItem(store, key) == IF key \in DOMAIN store THEN Some(store[key]) ELSE Null
setItem(store, key, text) == [k \in DOMAIN store \cup {key} |-> IF k = key THEN text ELSE store[k]]
removeItem(store, key) == [k \in DOMAIN store \ {key} |-> store[k]]

Init ==
  /\ messages = <<>>
  /\ searchTerm = <<>>
  /\ viewMode = "list"
  /\ editingSnippet = Null
  /\ copyFeedback = Null
  /\ localStorage \in InitialStorage
  /\ mounted = FALSE
  /\ uuids = 0
  /\ reads = {}
  /\ writes = <<>>
  /\ timers = <<>>
  /\ lastOp = "none"

\* lastOp after a handler that changed the collection.  Every other handler
\* sets lastOp to "other", the pick of a file included: a read that
\* completes while lastOp is one of these was started before that change.
Mutations == {"create", "update", "delete", "clear", "import", "importRaced"}

\* the save effect with an empty dependency list: it runs after the first render only
CommitSavingOnce(op, ms, saved, term, store, rd, wr, tm) ==
  LET ok == ~RenderThrows(ms, term) IN
  /\ messages' = ms
  /\ searchTerm' = term
  /\ mounted' = ok
  /\ localStorage' = store
  /\ reads' = IF ok THEN rd ELSE {}
  /\ writes' = IF ok THEN wr ELSE <<>>
  /\ timers' = IF ok THEN tm ELSE <<>>
  /\ lastOp' = IF ok THEN op ELSE "renderError"

\* The render that follows a handler, and the save effect after it.  ms and term
\* are the new state, saved tells whether setMessages was called, store is the
\* storage area as the handler left it, rd, wr and tm the callbacks in flight.
\* When the render throws the root is unmounted: no effect runs, and callbacks
\* still in flight find no component to update.
Commit(op, ms, saved, term, store, rd, wr, tm) ==
  LET ok == ~RenderThrows(ms, term) IN
  /\ messages' = ms
  /\ searchTerm' = term
  /\ mounted' = ok
  /\ localStorage' = IF ok /\ saved THEN setItem(store, StorageKey, Stringify(ms)) ELSE store
  /\ reads' = IF ok THEN rd ELSE {}
  /\ writes' = IF ok THEN wr ELSE <<>>
  /\ timers' = IF ok THEN tm ELSE <<>>
  /\ lastOp' = IF ok THEN op ELSE "renderError"

\* The page is opened or reloaded: useState initial values, first render, the
\* load effect, the save effect of the first render, and the render and save
\* effect that setMessages(JSON.parse(saved)) causes.
PageLoad ==
  LET saved == getItem(localStorage, StorageKey)
      parsed == IF saved # Null /\ saved[1] # <<>> THEN JSONParse(saved[1]) ELSE Fail
      first == setItem(localStorage, StorageKey, Stringify(<<>>)) IN
  /\ viewMode' = "list"
  /\ editingSnippet' = Null
  /\ copyFeedback' = Null
  /\ UNCHANGED uuids
  /\ IF parsed.ok
     THEN Commit("load", parsed.val, TRUE, <<>>, first, {}, <<>>, <<>>)
     ELSE Commit("load", <<>>, FALSE, <<>>, first, {}, <<>>, <<>>)

\* onChange of the search box
setSearchTerm(t) ==
  /\ mounted
  /\ t # searchTerm
  /\ Commit("other", messages, FALSE, t, localStorage, reads, writes, timers)
  /\ UNCHANGED << viewMode, editingSnippet, copyFeedback, uuids >>

\* the + button of the header
ClickAdd ==
  /\ mounted
  /\ viewMode' = "add"
  /\ lastOp' = "other"
  /\ UNCHANGED << messages, searchTerm, editingSnippet, copyFeedback,
                  localStorage, mounted, uuids, reads, writes, timers >>

\* the items that are rendered, each with its copy, edit and delete buttons
Shown ==
  LET fm == filteredMessages(messages, searchTerm) IN {fm[i] : i \in 1..Len(fm)}

\* the edit button of an item
ClickEdit(item) ==
  /\ mounted
  /\ item \in Shown
  /\ editingSnippet' = Some(item)
  /\ viewMode' = "edit"
  /\ lastOp' = "other"
  /\ UNCHANGED << messages, searchTerm, copyFeedback,
                  localStorage, mounted, uuids, reads, writes, timers >>

\* the X button of the form
CloseForm ==
  /\ mounted
  /\ viewMode # "list"
  /\ viewMode' = "list"
  /\ editingSnippet' = Null
  /\ lastOp' = "other"
  /\ UNCHANGED << messages, searchTerm, copyFeedback,
                  localStorage, mounted, uuids, reads, writes, timers >>

\* an update that appends the record when no record has its id
ReplaceOrAppend(prev, snippet) ==
  IF \E i \in 1..Len(prev) : prev[i].id = snippet.id
  THEN [i \in 1..Len(prev) |-> IF prev[i].id = snippet.id THEN snippet ELSE prev[i]]
  ELSE Append(prev, snippet)

\* prev.map(m => m.id === snippet.id ? snippet : m)
ReplaceById(prev, snippet) ==
  [i \in 1..Len(prev) |-> IF prev[i].id = snippet.id THEN snippet ELSE prev[i]]

\* onSubmit of the form
addOrUpdateSnippet(form) ==
  LET fresh == editingSnippet = Null \/ editingSnippet[1].id = <<>>
      snippet == [id |-> IF fresh THEN randomUUID(uuids + 1) ELSE editingSnippet[1].id,
                  category |-> OrElse(form.category, Geral),
                  title |-> OrElse(form.title, SemTitulo),
                  content |-> OrElse(form.content, <<>>)] IN
  /\ mounted
  /\ viewMode # "list"
  /\ fresh => uuids < MaxIds
  /\ viewMode # "edit" => Len(messages) < MaxMessages
  /\ uuids' = IF fresh THEN uuids + 1 ELSE uuids
  /\ viewMode' = "list"
  /\ editingSnippet' = Null
  /\ UNCHANGED << copyFeedback >>
  /\ IF viewMode = "edit"
     THEN Commit("update", ReplaceById(messages, snippet), TRUE, searchTerm, localStorage,
                 reads, writes, timers)
     ELSE Commit("create", Append(messages, snippet), TRUE, searchTerm, localStorage,
                 reads, writes, timers)

\* the delete button of an item, and the answer to confirm()
deleteSnippet(id, confirmed) ==
  /\ mounted
  /\ \E item \in Shown : item.id = id
  /\ confirmed
  /\ Commit("delete", SelectSeq(messages, LAMBDA m : m.id # id), TRUE, searchTerm,
            localStorage, reads, writes, timers)
  /\ UNCHANGED << viewMode, editingSnippet, copyFeedback, uuids >>

\* the clear-all button of the settings overlay, and the answer to confirm()
ClearAll(confirmed) ==
  /\ mounted
  /\ confirmed
  /\ Commit("clear", <<>>, TRUE, searchTerm, removeItem(localStorage, StorageKey),
            reads, writes, timers)
  /\ UNCHANGED << viewMode, editingSnippet, copyFeedback, uuids >>

\* onChange of the file input: the read of the picked file starts
handleFileUpload(data) ==
  /\ mounted
  /\ Cardinality(reads) < MaxReads
  /\ data \notin reads
  /\ reads' = reads \cup {data}
  /\ lastOp' = "other"
  /\ UNCHANGED << messages, searchTerm, viewMode, editingSnippet, copyFeedback,
                  localStorage, mounted, uuids, writes, timers >>

Remove(seq, k) == SubSeq(seq, 1, k - 1) \o SubSeq(seq, k + 1, Len(seq))

\* an import that replaces the collection: setMessages(newSnippets)
readerOnloadReplacing(data) ==
  LET new == newSnippets(data, uuids + 1) IN
  /\ mounted
  /\ data \in reads
  /\ uuids + Len(new) <= MaxIds
  /\ Len(messages) + Len(new) <= MaxMessages
  /\ uuids' = uuids + Len(new)
  /\ UNCHANGED << viewMode, editingSnippet, copyFeedback >>
  /\ IF Len(new) > 0
     THEN Commit(IF lastOp \in Mutations THEN "importRaced" ELSE "import",
                 new, TRUE, searchTerm, localStorage, reads \ {data}, writes, timers)
     ELSE Commit("other", messages, FALSE, searchTerm, localStorage,
                 reads \ {data}, writes, timers)

\* reader.onload of a read in flight
readerOnload(data) ==
  LET new == newSnippets(data, uuids + 1) IN
  /\ mounted
  /\ data \in reads
  /\ uuids + Len(new) <= MaxIds
  /\ Len(messages) + Len(new) <= MaxMessages
  /\ uuids' = uuids + Len(new)
  /\ UNCHANGED << viewMode, editingSnippet, copyFeedback >>
  /\ IF Len(new) > 0
     THEN Commit(IF lastOp \in Mutations THEN "importRaced" ELSE "import",
                 messages \o new, TRUE, searchTerm, localStorage,
                 reads \ {data}, writes, timers)
     ELSE Commit("other", messages, FALSE, searchTerm, localStorage,
                 reads \ {data}, writes, timers)

\* a click on the title or on the expanded text of an item: the clipboard write starts
handleCopy(item) ==
  /\ mounted
  /\ item \in Shown
  /\ Len(writes) < MaxWrites
  /\ writes' = Append(writes, item.id)
  /\ lastOp' = "other"
  /\ UNCHANGED << messages, searchTerm, viewMode, editingSnippet, copyFeedback,
                  localStorage, mounted, uuids, reads, timers >>

\* a copy that shows the acknowledgment and starts no timer
writeTextSettlesNoTimer(k, resolved) ==
  /\ mounted
  /\ k \in 1..Len(writes)
  /\ resolved => Len(timers) < MaxTimers
  /\ writes' = Remove(writes, k)
  /\ copyFeedback' = IF resolved THEN Some(writes[k]) ELSE copyFeedback
  /\ timers' = timers
  /\ lastOp' = IF resolved THEN "copied" ELSE "copyFailed"
  /\ UNCHANGED << messages, searchTerm, viewMode, editingSnippet,
                  localStorage, mounted, uuids, reads >>

\* the clipboard write of the k-th copy in flight settles
writeTextSettles(k, resolved) ==
  /\ mounted
  /\ k \in 1..Len(writes)
  /\ resolved => Len(timers) < MaxTimers
  /\ writes' = Remove(writes, k)
  /\ copyFeedback' = IF resolved THEN Some(writes[k]) ELSE copyFeedback
  /\ timers' = IF resolved THEN Append(timers, writes[k]) ELSE timers
  /\ lastOp' = IF resolved THEN "copied" ELSE "copyFailed"
  /\ UNCHANGED << messages, searchTerm, viewMode, editingSnippet,
                  localStorage, mounted, uuids, reads >>

\* the oldest timeout fires: setCopyFeedback(null)
TimerFires ==
  /\ mounted
  /\ timers # <<>>
  /\ timers' = Tail(timers)
  /\ copyFeedback' = Null
  /\ lastOp' = "timeout"
  /\ UNCHANGED << messages, searchTerm, viewMode, editingSnippet,
                  localStorage, mounted, uuids, reads, writes >>

Next ==
  \/ PageLoad
  \/ \E t \in SearchTerms : setSearchTerm(t)
  \/ ClickAdd
  \/ \E item \in Shown : ClickEdit(item)
  \/ CloseForm
  \/ \E form \in FormInputs : addOrUpdateSnippet(form)
  \/ \E item \in Shown, confirmed \in BOOLEAN : deleteSnippet(item.id, confirmed)
  \/ \E confirmed \in BOOLEAN : ClearAll(confirmed)
  \/ \E data \in Sheets : handleFileUpload(data)
  \/ \E data \in reads : readerOnload(data)

\* the store and the form, from the first visit of the page
Spec == Init /\ [][Next]_vars

\* a later visit: the page is opened on a collection saved earlier
CopyInit ==
  /\ messages = <<>>
  /\ searchTerm = <<>>
  /\ viewMode = "list"
  /\ editingSnippet = Null
  /\ copyFeedback = Null
  /\ localStorage = [k \in {StorageKey} |-> Stringify(EarlierVisit)]
  /\ mounted = FALSE
  /\ uuids = 0
  /\ reads = {}
  /\ writes = <<>>
  /\ timers = <<>>
  /\ lastOp = "none"

CopyNext ==
  \/ PageLoad
  \/ \E t \in SearchTerms : setSearchTerm(t)
  \/ \E item \in Shown, confirmed \in BOOLEAN : deleteSnippet(item.id, confirmed)
  \/ \E item \in Shown : handleCopy(item)
  \/ \E k \in 1..Len(writes), resolved \in BOOLEAN : writeTextSettles(k, resolved)
  \/ TimerFires

\* the copy acknowledgment; timers that were scheduled eventually fire
CopySpec == CopyInit /\ [][CopyNext]_vars /\ WF_vars(TimerFires)

\* ------------------------------------------------------------------------
\* Properties
\* ------------------------------------------------------------------------
Stored == localStorage[StorageKey]
Filtered == filteredMessages(messages, searchTerm)

\* C1: after a confirmed clear, once the effects it triggers have run, the
\* persisted slot is absent (the key does not exist).
C1_SlotAbsentAfterClear == lastOp = "clear" => StorageKey \notin DOMAIN localStorage

\* C2: after the startup load and after every mutation, once the save effect
\* has run, the slot holds the serialization of the whole collection: a load at
\* that point reproduces the same snippets, the same fields, the same order.
C2_StoredIsCollection ==
  mounted => /\ StorageKey \in DOMAIN localStorage
             /\ JSONParse(Stored).ok
             /\ JSONParse(Stored).val = messages

\* a reload has reproduced two snippets, one with a quote and a backslash
C2_Witness ==
  /\ mounted
  /\ lastOp = "load"
  /\ Len(messages) = 2
  /\ \E i \in 1..2 : messages[i].content = <<"a", "B", "\\", "\"">>

\* C3: the groups are shown in the lexicographic order of their category keys
\* alone: the group of a comes before the group of b exactly when a < b.
C3_GroupsInKeyOrder ==
  mounted =>
    LET shown == DisplayedGroups(messages, searchTerm) IN
    \A i, j \in 1..Len(shown) :
      i < j <=> StrLess(shown[i].category, shown[j].category)

\* C4: for every category string, grouping partitions the filtered list: the
\* groups have distinct keys and are not empty, each group holds exactly the
\* filtered snippets of its category, in their order, and nothing is left out.
C4_GroupsPartition ==
  LET g == groupedMessages(Filtered) IN
  /\ ~g.threw
  /\ \A i, j \in 1..Len(g.groups) : g.groups[i].category = g.groups[j].category => i = j
  /\ \A i \in 1..Len(g.groups) :
       /\ g.groups[i].items # <<>>
       /\ g.groups[i].items =
            SelectSeq(Filtered, LAMBDA m : m.category = g.groups[i].category)
  /\ \A k \in 1..Len(Filtered) :
       \E i \in 1..Len(g.groups) : g.groups[i].category = Filtered[k].category

\* t occurs in s as a run of consecutive characters
IsSubstring(t, s) ==
  \E i \in 1..(Len(s) + 1) : \E j \in (i - 1)..Len(s) : SubSeq(s, i, j) = t

TermFound(m) ==
  \E field \in {m.title, m.category, m.content} :
    IsSubstring(toLowerCase(searchTerm), toLowerCase(field))

\* C5: the filtered list is exactly the subsequence of the collection made of
\* the snippets in which the lowercased term occurs in the lowercased title,
\* category or content; with the empty term it is the collection itself.
C5_FilterIsSubsequence ==
  LET found == {i \in 1..Len(messages) : TermFound(messages[i])} IN
  /\ Len(Filtered) = Cardinality(found)
  /\ \E f \in [1..Len(Filtered) -> found] :
       /\ \A a, b \in 1..Len(Filtered) : a < b => f[a] < f[b]
       /\ \A a \in 1..Len(Filtered) : Filtered[a] = messages[f[a]]
  /\ searchTerm = <<>> => Filtered = messages

\* a search that keeps one of two snippets
C5_Witness ==
  /\ mounted
  /\ searchTerm # <<>>
  /\ Len(messages) = 2
  /\ Len(Filtered) = 1

\* C6: no two snippets of the collection have the same id.
C6_IdsUnique ==
  \A i, j \in 1..Len(messages) : messages[i].id = messages[j].id => i = j

\* C7: a submit in edit mode for id X keeps the length and the order, leaves
\* every record with another id as it was, keeps the id of the record it
\* replaces, and appends nothing when no record has id X.
C7_UpdateInPlace ==
  [][(viewMode = "edit" /\ \E form \in FormInputs : addOrUpdateSnippet(form)) =>
       /\ Len(messages') = Len(messages)
       /\ \A i \in 1..Len(messages) :
            IF messages[i].id = editingSnippet[1].id
            THEN messages'[i].id = editingSnippet[1].id
            ELSE messages'[i] = messages[i]]_vars

\* an update has been applied to a collection of two snippets
C7_Witness ==
  /\ lastOp = "update"
  /\ Len(messages) = 2
  /\ messages[1].id # messages[2].id

\* C8: no snippet has an empty category or an empty title.
C8_CategoryAndTitleNonEmpty ==
  \A i \in 1..Len(messages) : messages[i].category # <<>> /\ messages[i].title # <<>>

\* the rows of a sheet that an import keeps: not the first, at least 3 cells
Kept(data) == {r \in 2..Len(data) : Len(data[r]) >= 3}

\* C9: when the read of an import completes, the collection becomes the
\* collection of that moment followed by one snippet per kept row, in row
\* order; with no kept row it is left unchanged.
C9_ImportAppends ==
  [][\A data \in reads : readerOnload(data) =>
       LET n == Len(messages) IN
       /\ Len(messages') = n + Cardinality(Kept(data))
       /\ SubSeq(messages', 1, n) = messages
       /\ \E f \in [1..Cardinality(Kept(data)) -> Kept(data)] :
            /\ \A a, b \in DOMAIN f : a < b => f[a] < f[b]
            /\ \A a \in DOMAIN f : messages'[n + a].content = trim(data[f[a]][3])
       /\ Kept(data) = {} => messages' = messages]_vars

\* an import completed after the collection changed under the read, and its
\* snippet follows what was there
C9_Witness ==
  /\ lastOp = "importRaced"
  /\ Len(messages) = 2

\* the ids of the collection of the earlier visit
SavedIds == {EarlierVisit[i].id : i \in 1..Len(EarlierVisit)}

\* C10: an acknowledgment set for snippet X is eventually cleared, the timers
\* firing and the user doing nothing more.
C10_AcknowledgmentClears ==
  \A x \in SavedIds : (copyFeedback = Some(x)) ~> (copyFeedback # Some(x))

\* a copy has succeeded and its acknowledgment is shown
C10_Witness ==
  /\ lastOp = "copied"
  /\ copyFeedback # Null

\* C11: when a copy of Y succeeds while the timer of an earlier copy of X is
\* pending, the acknowledgment of Y is cleared only by the timer that Y's own
\* copy started, never by the earlier timer. The acknowledgment shown was set
\* together with the newest pending timer and the oldest timer fires first, so
\* the timer that clears it is the acknowledgment's own only when it is the
\* single timer pending.
C11_ClearedByOwnTimer ==
  [][(TimerFires /\ copyFeedback # Null) => Len(timers) = 1]_vars
====
